---- MODULE Spec2Model ----
(***************************************************************************)
(* A model of ibpmvis.py: the batch pass of main (readFlow, compute_levels *)
(* and the write of the HTML document) and the script of the generated     *)
(* document (adjacency maps, drawLinks, traverse, highlightField, the      *)
(* scroll/resize handler).                                                 *)
(*                                                                         *)
(* Text (node aliases, field aliases, formulas, keys) is a sequence of     *)
(* one-character strings, so that matching, concatenation and splitting    *)
(* are computed character by character.  A Python dict and a JavaScript    *)
(* object are a sequence of [key, val] entries in insertion order with     *)
(* unique keys.                                                            *)
(***************************************************************************)
EXTENDS Integers, Sequences, FiniteSets, TLC

VARIABLES
    file,        \* the flow definition read by main: [nodes, edges]
    pc,          \* position of main / of the document's script
    nodes,       \* readFlow's nodes dict (the payload's nodes in the document)
    allLinks,    \* readFlow's allLinks list (the payload's links in the document)
    edgeIdx,     \* index of the next structural edge of readFlow's second loop
    children,    \* compute_levels: children (node id -> list of node ids)
    indegree,    \* compute_levels: indegree dict
    queue,       \* compute_levels: the deque
    levels,      \* compute_levels: levels dict (NoLevel models None)
    dequeued,    \* history: the node ids popped from the deque, in order
    result,      \* compute_levels' return value: the list of groups
    exitStatus,  \* the process's exit status (NotExited while running)
    stderr,      \* what main reported on stderr
    artifact,    \* the output file: "absent", "partial" or "written"
    fwd,         \* document: forward adjacency map
    bwd,         \* document: backward adjacency map
    fieldClass,  \* document: class list of every li.field element
    paths,       \* document: the path.link elements of the svg, in order
    ticking,     \* document: the pending flag of onScrollOrResize
    rafQueue,    \* document: number of animation-frame callbacks requested
    anc,         \* highlightField: keys visited by traverse(bwd, key, anc)
    desc,        \* highlightField: keys visited by traverse(fwd, key, desc)
    clicked,     \* history: <<el>> for the li.field element of the last click, <<>> if none
    triggers,    \* history: scroll/resize events since the last frame
    frameDraws   \* history: drawLinks calls made by the last frame

batchVars == <<file, pc, nodes, allLinks, edgeIdx, children, indegree, queue,
               levels, dequeued, result, exitStatus, stderr, artifact>>
viewVars == <<fwd, bwd, fieldClass, paths, ticking, rafQueue, anc, desc,
              clicked, triggers, frameDraws>>
vars == <<batchVars, viewVars>>

(***************************************************************************)
(* Bounds of the checked inputs.                                           *)
(***************************************************************************)
MaxAliasLen == 2     \* longest source alias of the text family
MaxFormulaLen == 3   \* longest formula of the text family
MaxEdges == 2        \* most structural edges of the structure family
MaxLinks == 3        \* most structural edges (one link each) of the graph family
MaxViewEdges == 2    \* most structural edges behind a checked document
MaxTriggers == 2     \* most scroll/resize events counted between two frames
MaxGroupLen == 2     \* most entries of one field group of the catalog family

(***************************************************************************)
(* Text and dicts.                                                         *)
(***************************************************************************)
SeqsUpTo(S, n) == UNION {[1..k -> S] : k \in 0..n}

Range(s) == {s[i] : i \in DOMAIN s}

\* Python's None where the other values are integers (levels).
NoLevel == -1

\* sys.exit was not called yet.
NotExited == -1

\* d[k] = v of a dict: the value is replaced in place, a new key is appended.
DictHas(d, k) == \E i \in DOMAIN d : d[i].key = k

DictGet(d, k) == d[CHOOSE i \in DOMAIN d : d[i].key = k].val

DictSet(d, k, v) ==
    IF DictHas(d, k)
    THEN [i \in DOMAIN d |-> IF d[i].key = k THEN [key |-> k, val |-> v] ELSE d[i]]
    ELSE Append(d, [key |-> k, val |-> v])

DictKeys(d) == [i \in DOMAIN d |-> d[i].key]

(***************************************************************************)
(* The match of readFlow: re.search of                                     *)
(*   (?<![a-zA-Z0-9_]) + re.escape(sField) + (?![a-zA-Z0-9_])              *)
(* in the formula.                                                         *)
(***************************************************************************)
LowerCase == {"a", "m", "t", "x", "y"}
UpperCase == {"A", "B", "C", "X"}
Digits == {"1"}

\* The character class [a-zA-Z0-9_] over the characters of the model.
WordChars == LowerCase \cup UpperCase \cup Digits \cup {"_"}

\* (?<![a-zA-Z0-9_]) at offset i (0-based): no word character before it.
LookBehindOk(formula, i) == i = 0 \/ formula[i] \notin WordChars

\* (?![a-zA-Z0-9_]) at offset j: no word character at it.
LookAheadOk(formula, j) == j = Len(formula) \/ formula[j + 1] \notin WordChars

\* re.escape(sField) at offset i: every character stands for itself.
RECURSIVE LiteralAt(_, _, _, _)
LiteralAt(sField, formula, i, k) ==
    IF k > Len(sField) THEN TRUE
    ELSE IF i + k > Len(formula) THEN FALSE
    ELSE IF formula[i + k] # sField[k] THEN FALSE
    ELSE LiteralAt(sField, formula, i, k + 1)

\* The pattern without its lookbehind.
MatchAtNoLookBehind(sField, formula, i) ==
    /\ LiteralAt(sField, formula, i, 1)
    /\ LookAheadOk(formula, i + Len(sField))

\* One attempt of the pattern at offset i.
MatchAt(sField, formula, i) ==
    /\ LookBehindOk(formula, i)
    /\ LiteralAt(sField, formula, i, 1)
    /\ LookAheadOk(formula, i + Len(sField))

\* re.search: the attempts at offsets 0, 1, ..., len(formula), the first hit wins.
RECURSIVE SearchFrom(_, _, _)
SearchFrom(sField, formula, i) ==
    IF i > Len(formula) THEN FALSE
    ELSE IF MatchAt(sField, formula, i) THEN TRUE
    ELSE SearchFrom(sField, formula, i + 1)

ReSearch(sField, formula) == SearchFrom(sField, formula, 0)

(***************************************************************************)
(* readFlow, first loop: the field catalog.                                *)
(***************************************************************************)
\* No 'source' key in a field's dict yet.
NoSource == <<>>

FieldMeta(formula) == [formula |-> formula, source |-> NoSource]

\* for field in node['data'].get('output', []): output[alias] = {'formula': formula}
RECURSIVE CollectOutput(_, _, _)
CollectOutput(output, group, i) ==
    IF i > Len(group) THEN output
    ELSE CollectOutput(DictSet(output, group[i].alias, FieldMeta(group[i].formula)),
                       group, i + 1)

\* for field in node['data'].get('inoutput', []): output[alias] = {'formula': alias}
RECURSIVE CollectInoutput(_, _, _)
CollectInoutput(output, group, i) ==
    IF i > Len(group) THEN output
    ELSE CollectInoutput(DictSet(output, group[i].alias, FieldMeta(group[i].alias)),
                         group, i + 1)

\* for field in node['data'].get('fields', []): if select: output[alias] = {'formula': alias}
RECURSIVE CollectSelected(_, _, _)
CollectSelected(output, group, i) ==
    IF i > Len(group) THEN output
    ELSE CollectSelected(IF group[i].select
                         THEN DictSet(output, group[i].alias, FieldMeta(group[i].alias))
                         ELSE output,
                         group, i + 1)

\* The output group applied last, so that it wins a collision.
BuildOutputOutputLast(node) ==
    CollectOutput(
        CollectSelected(
            CollectInoutput(<<>>, node.data.inoutput, 1),
            node.data.fields, 1),
        node.data.output, 1)

\* output = {} and the three loops, lines 15-25.
BuildOutput(node) ==
    CollectSelected(
        CollectInoutput(
            CollectOutput(<<>>, node.data.output, 1),
            node.data.inoutput, 1),
        node.data.fields, 1)

\* The loop over file['nodes']: exception nodes are skipped.
RECURSIVE BuildNodes(_, _, _)
BuildNodes(acc, fileNodes, i) ==
    IF i > Len(fileNodes) THEN acc
    ELSE IF fileNodes[i].nodeType = "exception" THEN BuildNodes(acc, fileNodes, i + 1)
    ELSE BuildNodes(DictSet(acc, fileNodes[i].alias,
                            [nodeType |-> fileNodes[i].nodeType,
                             output |-> BuildOutput(fileNodes[i])]),
                    fileNodes, i + 1)

(***************************************************************************)
(* readFlow, second loop: the links of one structural edge.                *)
(***************************************************************************)
FieldRef(nodeId, fieldAlias) == [nodeId |-> nodeId, fieldAlias |-> fieldAlias]

\* The link with its ends exchanged.
LinkReversed(src, sField, tgt, tField) ==
    [source |-> FieldRef(tgt, tField), target |-> FieldRef(src, sField)]

Link(src, sField, tgt, tField) ==
    [source |-> FieldRef(src, sField), target |-> FieldRef(tgt, tField)]

\* The record of one match: the 'source' annotation written on the target field.
MatchSource(src, sField) == <<FieldRef(src, sField)>>

\* The annotation kept from the first match instead of overwritten.
RecordMatchFirst(st, src, tgt, sField, tField) ==
    LET tNode == DictGet(st.nodes, tgt)
        tMeta == DictGet(tNode.output, tField)
        newMeta == IF tMeta.source = NoSource
                   THEN [tMeta EXCEPT !.source = MatchSource(src, sField)]
                   ELSE tMeta
        newNode == [tNode EXCEPT !.output = DictSet(tNode.output, tField, newMeta)]
    IN  [nodes |-> DictSet(st.nodes, tgt, newNode),
         links |-> Append(st.links, Link(src, sField, tgt, tField))]

\* The state of the scan: the nodes dict and the allLinks list.
\* On a match of sField in tField's formula: annotate tField, append the link.
RecordMatch(st, src, tgt, sField, tField) ==
    LET tNode == DictGet(st.nodes, tgt)
        tMeta == DictGet(tNode.output, tField)
        newMeta == [tMeta EXCEPT !.source = MatchSource(src, sField)]
        newNode == [tNode EXCEPT !.output = DictSet(tNode.output, tField, newMeta)]
    IN  [nodes |-> DictSet(st.nodes, tgt, newNode),
         links |-> Append(st.links, Link(src, sField, tgt, tField))]

\* for sField in sourceFields: the keys of nodes[src]['output'], in order.
RECURSIVE ScanSources(_, _, _, _, _, _)
ScanSources(st, src, tgt, tField, formula, si) ==
    LET sourceFields == DictKeys(DictGet(st.nodes, src).output)
    IN  IF si > Len(sourceFields) THEN st
        ELSE ScanSources(IF ReSearch(sourceFields[si], formula)
                         THEN RecordMatch(st, src, tgt, sourceFields[si], tField)
                         ELSE st,
                         src, tgt, tField, formula, si + 1)

\* for tField, tMeta in targetFields.items(): formula = tMeta.get('formula', '')
RECURSIVE ScanTargets(_, _, _, _)
ScanTargets(st, src, tgt, ti) ==
    LET targetFields == DictGet(st.nodes, tgt).output
    IN  IF ti > Len(targetFields) THEN st
        ELSE ScanTargets(ScanSources(st, src, tgt, targetFields[ti].key,
                                     targetFields[ti].val.formula, 1),
                         src, tgt, ti + 1)

\* nodes[src] or nodes[tgt] raises KeyError.
EdgeResolves(catalog, edge) ==
    DictHas(catalog, edge.source) /\ DictHas(catalog, edge.target)

\* The body of `for edge in file['edges']` for an edge whose aliases resolve.
ScanEdge(catalog, links, edge) ==
    ScanTargets([nodes |-> catalog, links |-> links], edge.source, edge.target, 1)

(***************************************************************************)
(* compute_levels.                                                         *)
(***************************************************************************)
NodeIds(catalog) == DictKeys(catalog)

\* children[src].append(tgt) for every link, in the order of the links.
ChildrenOf(links, nid) ==
    LET mine == SelectSeq(links, LAMBDA l : l.source.nodeId = nid)
    IN  [i \in DOMAIN mine |-> mine[i].target.nodeId]

\* indegree[tgt] = indegree.get(tgt, 0) + 1 for every link.
IndegreeOf(links, nid) ==
    Len(SelectSeq(links, LAMBDA l : l.target.nodeId = nid))

\* deque([nid for nid, deg in indegree.items() if deg == 0])
InitialQueue(ids, deg) == SelectSeq(ids, LAMBDA nid : deg[nid] = 0)

\* Only the head of the queue seeded with level 0.
InitialLevelHead(nid, q) == IF q # <<>> /\ nid = Head(q) THEN 0 ELSE NoLevel

\* levels = {nid: None for nid in nodes}; for nid in queue: levels[nid] = 0
InitialLevel(nid, q) == IF nid \in Range(q) THEN 0 ELSE NoLevel

\* The smaller level kept instead of the larger.
ChildLevelMin(cur, parentLevel) ==
    IF cur = NoLevel \/ parentLevel + 1 < cur THEN parentLevel + 1 ELSE cur

\* A level that is None never replaced.
ChildLevelUnsetKept(cur, parentLevel) ==
    IF cur # NoLevel /\ parentLevel + 1 > cur THEN parentLevel + 1 ELSE cur

\* The first level assigned kept, a larger one ignored.
ChildLevelFirst(cur, parentLevel) ==
    IF cur = NoLevel THEN parentLevel + 1 ELSE cur

\* lvl = levels[nid] + 1; if levels[c] is None or lvl > levels[c]: levels[c] = lvl
ChildLevel(cur, parentLevel) ==
    IF cur = NoLevel \/ parentLevel + 1 > cur THEN parentLevel + 1 ELSE cur

\* The child enqueued one link early as well.
ReadyEarly(deg) == deg \in {0, 1}

\* if indegree[c] == 0: queue.append(c)
Ready(deg) == deg = 0

\* for c in children[nid]: one pass over the body, on [indegree, levels, queue].
RECURSIVE VisitChildren(_, _, _, _)
VisitChildren(st, nid, cs, i) ==
    IF i > Len(cs) THEN st
    ELSE LET c == cs[i]
             deg == st.indegree[c] - 1
         IN  VisitChildren(
                 [indegree |-> [st.indegree EXCEPT ![c] = deg],
                  levels |-> [st.levels EXCEPT ![c] = ChildLevel(st.levels[c], st.levels[nid])],
                  queue |-> IF Ready(deg) THEN Append(st.queue, c) ELSE st.queue],
                 nid, cs, i + 1)

\* groups[lvl].append(nid) for nid, lvl in levels.items(): the keys of groups in
\* insertion order.
RECURSIVE GroupKeys(_, _, _, _)
GroupKeys(acc, ids, lv, i) ==
    IF i > Len(ids) THEN acc
    ELSE GroupKeys(IF lv[ids[i]] \in Range(acc) THEN acc ELSE Append(acc, lv[ids[i]]),
                   ids, lv, i + 1)

GroupOf(ids, lv, key) == SelectSeq(ids, LAMBDA nid : lv[nid] = key)

\* sorted(groups) raises TypeError when it has to compare None with an int.
SortRaises(keys) == NoLevel \in Range(keys) /\ Len(keys) > 1

\* sorted() of integer keys (or of the single key None).
RECURSIVE SortedKeys(_)
SortedKeys(S) ==
    IF S = {} THEN <<>>
    ELSE LET least == CHOOSE k \in S : \A j \in S : k <= j
         IN  <<least>> \o SortedKeys(S \ {least})

\* The groups in the insertion order of their keys, not sorted.
GroupsListUnsorted(ids, lv) ==
    LET order == GroupKeys(<<>>, ids, lv, 1)
    IN  [i \in DOMAIN order |-> GroupOf(ids, lv, order[i])]

\* [groups[l] for l in sorted(groups)]
GroupsList(ids, lv) ==
    LET order == SortedKeys(Range(GroupKeys(<<>>, ids, lv, 1)))
    IN  [i \in DOMAIN order |-> GroupOf(ids, lv, order[i])]

(***************************************************************************)
(* The flow definitions checked by Spec.  Three families:                  *)
(*  - text: two nodes of one output field each and one structural edge,    *)
(*    every source alias and every formula up to the bounds;               *)
(*  - structure: two nodes (the second may be an exception node) of up to  *)
(*    two output fields, every list of structural edges up to MaxEdges;    *)
(*  - graph: three nodes of one pass-through field each, so that every     *)
(*    structural edge yields exactly one link, every list of structural    *)
(*    edges up to MaxLinks.                                                *)
(***************************************************************************)
NodeA == <<"A">>
NodeB == <<"B">>
NodeC == <<"C">>

Data(output, inoutput, fields) ==
    [output |-> output, inoutput |-> inoutput, fields |-> fields]

FileNode(alias, nodeType, data) ==
    [alias |-> alias, nodeType |-> nodeType, data |-> data]

OutField(alias, formula) == [alias |-> alias, formula |-> formula]

Edge(src, tgt) == [source |-> src, target |-> tgt]

EdgesOver(ids) == {Edge(s, t) : s \in ids, t \in ids}

TextAlphabet == {"x", "1", "+"}

ExampleFormulas ==
    {<<"m", "a", "x">>, <<"(", "x", ")">>, <<"X">>, <<"a", "m", "a", "x">>,
     <<"a", " ", "+", " ", "1">>, <<"x", "_">>, <<"_", "x">>, <<"x", ".">>, <<"x", "a">>}

TextAliases == SeqsUpTo(TextAlphabet, MaxAliasLen) \cup {<<"a">>, <<"x", ".">>}

TextFormulas == SeqsUpTo(TextAlphabet, MaxFormulaLen) \cup ExampleFormulas

TextFile(f, F) ==
    [nodes |-> <<FileNode(NodeA, "input", Data(<<OutField(f, <<>>)>>, <<>>, <<>>)),
                 FileNode(NodeB, "calc", Data(<<OutField(<<"t">>, F)>>, <<>>, <<>>))>>,
     edges |-> <<Edge(NodeA, NodeB)>>]

StructAliases == {<<"x">>, <<"a">>}

StructFormulas == {<<>>, <<"x", "+", "a">>}

\* The output groups: lists of distinct aliases, each with a formula.
StructOutputs ==
    {o \in SeqsUpTo({OutField(f, F) : f \in StructAliases, F \in StructFormulas},
                    Cardinality(StructAliases)) :
        \A i, j \in DOMAIN o : o[i].alias = o[j].alias => i = j}

StructFile(oa, ob, tb, es) ==
    [nodes |-> <<FileNode(NodeA, "input", Data(oa, <<>>, <<>>)),
                 FileNode(NodeB, tb, Data(ob, <<>>, <<>>))>>,
     edges |-> es]

PassThrough(aliases) == [i \in DOMAIN aliases |-> [alias |-> aliases[i]]]

GraphNode(alias) == FileNode(alias, "calc", Data(<<>>, PassThrough(<<<<"x">>>>), <<>>))

GraphFile(es) ==
    [nodes |-> <<GraphNode(NodeA), GraphNode(NodeB), GraphNode(NodeC)>>, edges |-> es]

(***************************************************************************)
(* main: the batch pass.                                                   *)
(***************************************************************************)
ViewIdle ==
    /\ fwd = <<>> /\ bwd = <<>> /\ fieldClass = <<>> /\ paths = <<>>
    /\ ticking = FALSE /\ rafQueue = 0 /\ anc = <<>> /\ desc = <<>>
    /\ clicked = <<>> /\ triggers = 0 /\ frameDraws = 0

InitFile ==
    \/ \E f \in TextAliases, F \in TextFormulas : file = TextFile(f, F)
    \/ \E oa \in StructOutputs, ob \in StructOutputs, tb \in {"calc", "exception"},
          es \in SeqsUpTo(EdgesOver({NodeA, NodeB}), MaxEdges) :
            file = StructFile(oa, ob, tb, es)
    \/ \E es \in SeqsUpTo(EdgesOver({NodeA, NodeB, NodeC}), MaxLinks) :
            file = GraphFile(es)

Init ==
    /\ InitFile
    /\ pc = "readFlow_nodes"
    /\ nodes = <<>>
    /\ allLinks = <<>>
    /\ edgeIdx = 1
    /\ children = <<>>
    /\ indegree = <<>>
    /\ queue = <<>>
    /\ levels = <<>>
    /\ dequeued = <<>>
    /\ result = <<>>
    /\ exitStatus = NotExited
    /\ stderr = ""
    /\ artifact = "absent"
    /\ ViewIdle

\* readFlow, lines 9-33: the catalog of the non-exception nodes.
ReadFlowNodes ==
    /\ pc = "readFlow_nodes"
    /\ nodes' = BuildNodes(<<>>, file.nodes, 1)
    /\ allLinks' = <<>>
    /\ edgeIdx' = 1
    /\ pc' = "readFlow_edges"
    /\ UNCHANGED <<file, children, indegree, queue, levels, dequeued, result,
                   exitStatus, stderr, artifact, viewVars>>

\* The edge dropped silently instead of the failure.
LoadFailureIgnored(ok) ==
    [pc |-> "readFlow_edges", exitStatus |-> NotExited, stderr |-> ""]

\* What main does when readFlow raises: the except branch, sys.exit(1).
LoadFailure(ok) ==
    IF ok THEN [pc |-> "readFlow_edges", exitStatus |-> NotExited, stderr |-> ""]
    ELSE [pc |-> "exit", exitStatus |-> 1, stderr |-> "Failed to load JSON"]

\* readFlow, lines 35-60: one structural edge.  An alias that is no key of nodes
\* raises KeyError, which main catches.
ReadFlowEdge ==
    /\ pc = "readFlow_edges"
    /\ edgeIdx <= Len(file.edges)
    /\ LET edge == file.edges[edgeIdx]
           ok == EdgeResolves(nodes, edge)
           st == IF ok THEN ScanEdge(nodes, allLinks, edge)
                 ELSE [nodes |-> nodes, links |-> allLinks]
           next == LoadFailure(ok)
       IN  /\ nodes' = st.nodes
           /\ allLinks' = st.links
           /\ pc' = next.pc
           /\ exitStatus' = next.exitStatus
           /\ stderr' = next.stderr
    /\ edgeIdx' = edgeIdx + 1
    /\ UNCHANGED <<file, children, indegree, queue, levels, dequeued, result,
                   artifact, viewVars>>

\* readFlow returns; main calls compute_levels, lines 65-75.
LevelsInit ==
    /\ pc = "readFlow_edges"
    /\ edgeIdx > Len(file.edges)
    /\ LET ids == NodeIds(nodes)
           deg == [nid \in Range(ids) |-> IndegreeOf(allLinks, nid)]
           q == InitialQueue(ids, deg)
       IN  /\ children' = [nid \in Range(ids) |-> ChildrenOf(allLinks, nid)]
           /\ indegree' = deg
           /\ queue' = q
           /\ levels' = [nid \in Range(ids) |-> InitialLevel(nid, q)]
    /\ dequeued' = <<>>
    /\ pc' = "levels_loop"
    /\ UNCHANGED <<file, nodes, allLinks, edgeIdx, result, exitStatus, stderr,
                   artifact, viewVars>>

\* One iteration of `while queue`, lines 76-84.
LevelsStep ==
    /\ pc = "levels_loop"
    /\ queue # <<>>
    /\ LET nid == Head(queue)
           st == VisitChildren([indegree |-> indegree, levels |-> levels,
                                queue |-> Tail(queue)],
                               nid, children[nid], 1)
       IN  /\ indegree' = st.indegree
           /\ levels' = st.levels
           /\ queue' = st.queue
           /\ dequeued' = Append(dequeued, nid)
    /\ UNCHANGED <<file, pc, nodes, allLinks, edgeIdx, children, result,
                   exitStatus, stderr, artifact, viewVars>>

\* Lines 85-88.  A TypeError of sorted() is caught by nobody: the interpreter
\* prints the traceback and exits with status 1.
LevelsGroup ==
    /\ pc = "levels_loop"
    /\ queue = <<>>
    /\ LET ids == NodeIds(nodes)
           raises == SortRaises(GroupKeys(<<>>, ids, levels, 1))
       IN  /\ result' = IF raises THEN <<>> ELSE GroupsList(ids, levels)
           /\ pc' = IF raises THEN "exit" ELSE "write"
           /\ exitStatus' = IF raises THEN 1 ELSE NotExited
           /\ stderr' = IF raises THEN "TypeError" ELSE stderr
    /\ UNCHANGED <<file, nodes, allLinks, edgeIdx, children, indegree, queue,
                   levels, dequeued, artifact, viewVars>>

\* Lines 259-266: the write of the document; open() or write() may fail.
WriteHtml ==
    /\ pc = "write"
    /\ \E outcome \in {"written", "absent", "partial"} :
        /\ artifact' = outcome
        /\ exitStatus' = IF outcome = "written" THEN 0 ELSE 1
        /\ stderr' = IF outcome = "written" THEN stderr ELSE "Failed to write HTML file"
    /\ pc' = "exit"
    /\ UNCHANGED <<file, nodes, allLinks, edgeIdx, children, indegree, queue,
                   levels, dequeued, result, viewVars>>

Next ==
    \/ ReadFlowNodes
    \/ ReadFlowEdge
    \/ LevelsInit
    \/ LevelsStep
    \/ LevelsGroup
    \/ WriteHtml

Spec == Init /\ [][Next]_vars

(***************************************************************************)
(* The batch pass on the graph family alone, the interpreter running the   *)
(* while loop of compute_levels as long as its condition holds.            *)
(***************************************************************************)
InitGraph ==
    /\ \E es \in SeqsUpTo(EdgesOver({NodeA, NodeB, NodeC}), MaxLinks) : file = GraphFile(es)
    /\ pc = "readFlow_nodes"
    /\ nodes = <<>>
    /\ allLinks = <<>>
    /\ edgeIdx = 1
    /\ children = <<>>
    /\ indegree = <<>>
    /\ queue = <<>>
    /\ levels = <<>>
    /\ dequeued = <<>>
    /\ result = <<>>
    /\ exitStatus = NotExited
    /\ stderr = ""
    /\ artifact = "absent"
    /\ ViewIdle

SpecLevels == InitGraph /\ [][Next]_vars /\ WF_vars(LevelsStep)

(***************************************************************************)
(* The batch pass on the catalog family: node A declares fields in its     *)
(* three groups (output, inoutput, fields), every list of entries up to    *)
(* MaxGroupLen per group, aliases repeated within a group and across       *)
(* groups; node B reads them through the structural edge A -> B.           *)
(***************************************************************************)
CatalogAliases == {<<"x">>, <<"a">>}

CatalogFormulas == {<<"1">>, <<"a">>}

SelectField(alias, select) == [alias |-> alias, select |-> select]

CatalogOutputs ==
    SeqsUpTo({OutField(f, F) : f \in CatalogAliases, F \in CatalogFormulas}, MaxGroupLen)

CatalogInoutputs ==
    {PassThrough(as) : as \in SeqsUpTo(CatalogAliases, MaxGroupLen)}

CatalogFields ==
    SeqsUpTo({SelectField(<<"x">>, sel) : sel \in BOOLEAN}, MaxGroupLen)

CatalogFile(out, inout, fields) ==
    [nodes |-> <<FileNode(NodeA, "input", Data(out, inout, fields)),
                 FileNode(NodeB, "calc",
                          Data(<<OutField(<<"t">>, <<"x", "+", "a">>)>>, <<>>, <<>>))>>,
     edges |-> <<Edge(NodeA, NodeB)>>]

InitCatalog ==
    /\ \E out \in CatalogOutputs, inout \in CatalogInoutputs, fields \in CatalogFields :
           file = CatalogFile(out, inout, fields)
    /\ pc = "readFlow_nodes"
    /\ nodes = <<>>
    /\ allLinks = <<>>
    /\ edgeIdx = 1
    /\ children = <<>>
    /\ indegree = <<>>
    /\ queue = <<>>
    /\ levels = <<>>
    /\ dequeued = <<>>
    /\ result = <<>>
    /\ exitStatus = NotExited
    /\ stderr = ""
    /\ artifact = "absent"
    /\ ViewIdle

SpecCatalog == InitCatalog /\ [][Next]_vars

(***************************************************************************)
(* The payload of the document main writes: readFlow and compute_levels    *)
(* run to their end.                                                       *)
(***************************************************************************)
RECURSIVE ScanEdges(_, _, _)
ScanEdges(st, edges, i) ==
    IF i > Len(edges) THEN st
    ELSE ScanEdges(ScanEdge(st.nodes, st.links, edges[i]), edges, i + 1)

RECURSIVE RunLoop(_, _)
RunLoop(st, ch) ==
    IF st.queue = <<>> THEN st
    ELSE RunLoop(VisitChildren([st EXCEPT !.queue = Tail(st.queue)],
                               Head(st.queue), ch[Head(st.queue)], 1),
                 ch)

\* The levels dict of compute_levels(nodes, links) when its loop is over, lines 65-84.
LevelsOf(ids, links) ==
    LET deg == [nid \in Range(ids) |-> IndegreeOf(links, nid)]
        q == InitialQueue(ids, deg)
    IN  RunLoop([indegree |-> deg,
                 levels |-> [nid \in Range(ids) |-> InitialLevel(nid, q)],
                 queue |-> q],
                [nid \in Range(ids) |-> ChildrenOf(links, nid)]).levels

\* [resolved, raised, nodes, links, levels] of the run of main on a file.
Payload(f) ==
    LET catalog == BuildNodes(<<>>, f.nodes, 1)
        resolved == \A i \in DOMAIN f.edges : EdgeResolves(catalog, f.edges[i])
        read == IF resolved THEN ScanEdges([nodes |-> catalog, links |-> <<>>], f.edges, 1)
                ELSE [nodes |-> catalog, links |-> <<>>]
        ids == NodeIds(read.nodes)
        deg == [nid \in Range(ids) |-> IndegreeOf(read.links, nid)]
        q == InitialQueue(ids, deg)
        final == RunLoop([indegree |-> deg,
                          levels |-> [nid \in Range(ids) |-> InitialLevel(nid, q)],
                          queue |-> q],
                         [nid \in Range(ids) |-> ChildrenOf(read.links, nid)])
        raised == SortRaises(GroupKeys(<<>>, ids, final.levels, 1))
    IN  [written |-> resolved /\ ~raised,
         nodes |-> read.nodes,
         links |-> read.links,
         levels |-> IF raised THEN <<>> ELSE GroupsList(ids, final.levels)]

(***************************************************************************)
(* The script of the document.                                             *)
(***************************************************************************)
\* nodeId + '|' + fieldAlias
Key(nid, fa) == nid \o <<"|">> \o fa

\* key.split('|')
RECURSIVE SplitFrom(_, _, _, _)
SplitFrom(key, i, cur, acc) ==
    IF i > Len(key) THEN Append(acc, cur)
    ELSE IF key[i] = "|" THEN SplitFrom(key, i + 1, <<>>, Append(acc, cur))
    ELSE SplitFrom(key, i + 1, Append(cur, key[i]), acc)

SplitBar(key) == SplitFrom(key, 1, <<>>, <<>>)

\* The li.field elements in document order: levels, then nodes, then Object.keys(node.output).
FieldsOfNode(catalog, nid) ==
    LET fas == DictKeys(DictGet(catalog, nid).output)
    IN  [i \in DOMAIN fas |-> [node |-> nid, field |-> fas[i]]]

RECURSIVE ElementsOfLevel(_, _, _)
ElementsOfLevel(catalog, level, i) ==
    IF i > Len(level) THEN <<>>
    ELSE FieldsOfNode(catalog, level[i]) \o ElementsOfLevel(catalog, level, i + 1)

RECURSIVE ElementsOf(_, _, _)
ElementsOf(catalog, lvls, i) ==
    IF i > Len(lvls) THEN <<>>
    ELSE ElementsOfLevel(catalog, lvls[i], 1) \o ElementsOf(catalog, lvls, i + 1)

Elements == ElementsOf(nodes, result, 1)

\* document.querySelector(`.field[data-node="${nid}"][data-field="${fa}"]`):
\* the first element that matches, <<>> for null.
QuerySelector(els, nid, fa) ==
    LET hits == SelectSeq(els, LAMBDA e : e.node = nid /\ e.field = fa)
    IN  IF hits = <<>> THEN <<>> ELSE <<Head(hits)>>

\* The element of a key: its first two parts select it.
QueryKey(els, key) ==
    LET parts == SplitBar(key)
    IN  IF Len(parts) < 2 THEN <<>> ELSE QuerySelector(els, parts[1], parts[2])

\* (map[key] || [])
MapGet(map, key) == IF DictHas(map, key) THEN DictGet(map, key) ELSE <<>>

\* (map[k] = map[k] || []).push(v)
MapPush(map, k, v) == DictSet(map, k, Append(MapGet(map, k), v))

SourceKey(l) == Key(l.source.nodeId, l.source.fieldAlias)

TargetKey(l) == Key(l.target.nodeId, l.target.fieldAlias)

RECURSIVE BuildFwd(_, _, _)
BuildFwd(map, links, i) ==
    IF i > Len(links) THEN map
    ELSE BuildFwd(MapPush(map, SourceKey(links[i]), TargetKey(links[i])), links, i + 1)

RECURSIVE BuildBwd(_, _, _)
BuildBwd(map, links, i) ==
    IF i > Len(links) THEN map
    ELSE BuildBwd(MapPush(map, TargetKey(links[i]), SourceKey(links[i])), links, i + 1)

\* drawLinks: the old paths removed, one new path per link whose two elements exist.
RECURSIVE DrawLinks(_, _, _)
DrawLinks(els, links, i) ==
    IF i > Len(links) THEN <<>>
    ELSE LET lnk == links[i]
             sEl == QuerySelector(els, lnk.source.nodeId, lnk.source.fieldAlias)
             tEl == QuerySelector(els, lnk.target.nodeId, lnk.target.fieldAlias)
         IN  (IF sEl = <<>> \/ tEl = <<>> THEN <<>>
              ELSE <<[src |-> SourceKey(lnk), tgt |-> TargetKey(lnk), highlighted |-> FALSE]>>)
             \o DrawLinks(els, links, i + 1)

\* {...anc, ...desc}; all[key] = true: the keys in insertion order.
RECURSIVE MergeKeys(_, _, _)
MergeKeys(acc, more, i) ==
    IF i > Len(more) THEN acc
    ELSE MergeKeys(IF more[i] \in Range(acc) THEN acc ELSE Append(acc, more[i]), more, i + 1)

\* The walk that stops one step from the start.
TraverseShallow(map, key, vis) ==
    IF key \in Range(vis) THEN vis
    ELSE MergeKeys(Append(vis, key), MapGet(map, key), 1)

\* traverse(map, key, vis): the keys of vis in insertion order.
RECURSIVE Traverse(_, _, _)
RECURSIVE TraverseEach(_, _, _, _)
Traverse(map, key, vis) ==
    IF key \in Range(vis) THEN vis
    ELSE TraverseEach(map, MapGet(map, key), Append(vis, key), 1)

TraverseEach(map, ks, vis, i) ==
    IF i > Len(ks) THEN vis
    ELSE TraverseEach(map, ks, Traverse(map, ks[i], vis), i + 1)

\* el.classList.remove('highlighted', 'selected') on every field.
ClearFields(fc) == [el \in DOMAIN fc |-> {}]

\* el.classList.remove('highlighted') on every path.
ClearPaths(ps) == [i \in DOMAIN ps |-> [ps[i] EXCEPT !.highlighted = FALSE]]

\* if (sel) sel.classList.add('selected')
MarkSelected(fc, els, key) ==
    LET sel == QueryKey(els, key)
    IN  IF sel = <<>> THEN fc ELSE [fc EXCEPT ![sel[1]] = @ \cup {"selected"}]

\* if (el && !el.classList.contains('selected')) el.classList.add('highlighted')
RECURSIVE MarkHighlighted(_, _, _, _)
MarkHighlighted(fc, els, keys, i) ==
    IF i > Len(keys) THEN fc
    ELSE LET el == QueryKey(els, keys[i])
         IN  MarkHighlighted(
                 IF el # <<>> /\ "selected" \notin fc[el[1]]
                 THEN [fc EXCEPT ![el[1]] = @ \cup {"highlighted"}]
                 ELSE fc,
                 els, keys, i + 1)

\* if (all[ph.dataset.src] && all[ph.dataset.tgt]) ph.classList.add('highlighted')
MarkPaths(ps, all) ==
    [i \in DOMAIN ps |->
        IF ps[i].src \in Range(all) /\ ps[i].tgt \in Range(all)
        THEN [ps[i] EXCEPT !.highlighted = TRUE] ELSE ps[i]]

\* highlightField(key)
HighlightField(key, fc, ps, els) ==
    LET a == Traverse(bwd, key, <<>>)
        d == Traverse(fwd, key, <<>>)
        all == MergeKeys(MergeKeys(a, d, 1), <<key>>, 1)
    IN  [anc |-> a,
         desc |-> d,
         fieldClass |-> MarkHighlighted(MarkSelected(ClearFields(fc), els, key), els, all, 1),
         paths |-> MarkPaths(ClearPaths(ps), all)]

\* The click handler of a li.field element.
ClickField(el) ==
    /\ pc = "document"
    /\ LET h == HighlightField(Key(el.node, el.field), fieldClass, paths, Elements)
       IN  /\ anc' = h.anc
           /\ desc' = h.desc
           /\ fieldClass' = h.fieldClass
           /\ paths' = h.paths
    /\ clicked' = <<el>>
    /\ UNCHANGED <<batchVars, fwd, bwd, ticking, rafQueue, triggers, frameDraws>>

\* A callback requested whatever the flag says.
ShouldRequestAlways(tick) == TRUE

\* if (!ticking)
ShouldRequest(tick) == ~tick

\* onScrollOrResize: a scroll or resize event.
OnScrollOrResize ==
    /\ pc = "document"
    /\ triggers < MaxTriggers
    /\ triggers' = triggers + 1
    /\ rafQueue' = IF ShouldRequest(ticking) THEN rafQueue + 1 ELSE rafQueue
    /\ ticking' = IF ShouldRequest(ticking) THEN TRUE ELSE ticking
    /\ UNCHANGED <<batchVars, fwd, bwd, fieldClass, paths, anc, desc, clicked, frameDraws>>

\* The callback that redraws and leaves the flag as it is.
AnimationFrameKeepsFlag ==
    /\ pc = "document"
    /\ paths' = IF rafQueue > 0 THEN DrawLinks(Elements, allLinks, 1) ELSE paths
    /\ frameDraws' = rafQueue
    /\ rafQueue' = 0
    /\ triggers' = 0
    /\ UNCHANGED <<batchVars, fwd, bwd, fieldClass, anc, desc, clicked, ticking>>

\* A rendering frame: every requested callback runs: drawLinks(); ticking = false.
AnimationFrame ==
    /\ pc = "document"
    /\ paths' = IF rafQueue > 0 THEN DrawLinks(Elements, allLinks, 1) ELSE paths
    /\ ticking' = IF rafQueue > 0 THEN FALSE ELSE ticking
    /\ frameDraws' = rafQueue
    /\ rafQueue' = 0
    /\ triggers' = 0
    /\ UNCHANGED <<batchVars, fwd, bwd, fieldClass, anc, desc, clicked>>

(***************************************************************************)
(* The documents checked: the payloads main writes for                     *)
(*  - two nodes, A with the pass-through fields x and x|y, B with the      *)
(*    pass-through field x, every list of structural edges up to           *)
(*    MaxViewEdges;                                                        *)
(*  - the three nodes of the graph family, every list of structural edges  *)
(*    up to MaxViewEdges.                                                  *)
(* The state is the one DOMContentLoaded leaves: the fields rendered, the  *)
(* adjacency maps built, the links drawn once.                             *)
(***************************************************************************)
BarFile(es) ==
    [nodes |-> <<FileNode(NodeA, "calc",
                          Data(<<>>, PassThrough(<<<<"x">>, <<"x", "|", "y">>>>), <<>>)),
                 FileNode(NodeB, "calc", Data(<<>>, PassThrough(<<<<"x">>>>), <<>>))>>,
     edges |-> es]

InitViewFile ==
    \/ \E es \in SeqsUpTo(EdgesOver({NodeA, NodeB}), MaxViewEdges) : file = BarFile(es)
    \/ \E es \in SeqsUpTo(EdgesOver({NodeA, NodeB, NodeC}), MaxViewEdges) : file = GraphFile(es)

\* The state DOMContentLoaded leaves for the document main wrote from file.
ViewLoaded ==
    /\ Payload(file).written
    /\ pc = "document"
    /\ nodes = Payload(file).nodes
    /\ allLinks = Payload(file).links
    /\ result = Payload(file).levels
    /\ edgeIdx = Len(file.edges) + 1
    /\ children = <<>> /\ indegree = <<>> /\ queue = <<>> /\ levels = <<>>
    /\ dequeued = <<>>
    /\ exitStatus = 0
    /\ stderr = ""
    /\ artifact = "written"
    /\ fwd = BuildFwd(<<>>, allLinks, 1)
    /\ bwd = BuildBwd(<<>>, allLinks, 1)
    /\ fieldClass = [el \in Range(Elements) |-> {}]
    /\ paths = DrawLinks(Elements, allLinks, 1)
    /\ ticking = FALSE
    /\ rafQueue = 0
    /\ anc = <<>> /\ desc = <<>> /\ clicked = <<>>
    /\ triggers = 0
    /\ frameDraws = 0

InitView == InitViewFile /\ ViewLoaded

NextView ==
    \/ \E el \in Range(Elements) : ClickField(el)
    \/ OnScrollOrResize
    \/ AnimationFrame

SpecView == InitView /\ [][NextView]_vars

(***************************************************************************)
(* The document's script when the browser runs every requested animation   *)
(* frame, on the documents of the two-node family.                         *)
(***************************************************************************)
InitFrames ==
    /\ \E es \in SeqsUpTo(EdgesOver({NodeA, NodeB}), MaxViewEdges) : file = BarFile(es)
    /\ ViewLoaded

SpecFrames == InitFrames /\ [][NextView]_vars /\ WF_vars(AnimationFrame)

(***************************************************************************)
(* Positions of the batch pass, and what the claims speak of.              *)
(***************************************************************************)
LoadFailed == stderr = "Failed to load JSON"

\* readFlow returned: every structural edge was scanned.
ReadFlowReturned ==
    /\ pc # "readFlow_nodes"
    /\ ~LoadFailed
    /\ pc = "readFlow_edges" => edgeIdx > Len(file.edges)

\* The levels dict exists.
LevelsStarted == pc \in {"levels_loop", "write"} \/ (pc = "exit" /\ ~LoadFailed)

\* compute_levels returned its list of groups.
LevelsReturned ==
    pc = "write" \/ (pc = "exit" /\ stderr \in {"", "Failed to write HTML file"})

\* The while loop of compute_levels is over.
LoopEnded == (pc = "levels_loop" /\ queue = <<>>) \/ pc = "write" \/ (pc = "exit" /\ ~LoadFailed)

\* The projected node graph: A -> B when some link goes from a field of A to one of B.
ProjectedEdges(links) == {<<l.source.nodeId, l.target.nodeId>> : l \in Range(links)}

RECURSIVE TransitiveClosure(_)
TransitiveClosure(R) ==
    LET Next2 == R \cup {<<p[1], q[2]>> : <<p, q>> \in {<<a, b>> \in R \X R : a[2] = b[1]}}
    IN  IF Next2 = R THEN R ELSE TransitiveClosure(Next2)

Acyclic(links) == \A p \in TransitiveClosure(ProjectedEdges(links)) : p[1] # p[2]

FieldsOf(nid) == Range(DictKeys(DictGet(nodes, nid).output))

FormulaOf(nid, fa) == DictGet(DictGet(nodes, nid).output, fa).formula

SourceOf(nid, fa) == DictGet(DictGet(nodes, nid).output, fa).source

Count(seq, x) == Cardinality({i \in DOMAIN seq : seq[i] = x})

\* An occurrence of alias f in formula F with no word character next to it.
Occurs(f, F) ==
    \E i \in 1..(Len(F) + 1) :
        /\ i + Len(f) - 1 <= Len(F)
        /\ SubSeq(F, i, i + Len(f) - 1) = f
        /\ i > 1 => F[i - 1] \notin WordChars
        /\ i + Len(f) <= Len(F) => F[i + Len(f)] \notin WordChars

(***************************************************************************)
(* C1.  On an acyclic projected node graph, once the loop of               *)
(* compute_levels is over, the two ends of every link hold integer levels  *)
(* and the target node's level is greater than the source node's.          *)
(***************************************************************************)
C1_LinksPointForward ==
    (LoopEnded /\ Acyclic(allLinks)) =>
        \A l \in Range(allLinks) :
            /\ levels[l.source.nodeId] # NoLevel
            /\ levels[l.target.nodeId] > levels[l.source.nodeId]

\* A diamond: three links, one of them spanning two levels.
C1_Witness ==
    /\ LevelsReturned /\ Acyclic(allLinks) /\ Len(allLinks) = 3
    /\ \E l \in Range(allLinks) :
           levels[l.source.nodeId] = 0 /\ levels[l.target.nodeId] = 2

(***************************************************************************)
(* C2.  With a cycle in the projected node graph, compute_levels neither   *)
(* raises nor puts a node without a level into the groups it returns (it   *)
(* reports the unresolved nodes instead).                                  *)
(***************************************************************************)
C2_CycleIsDetected ==
    (pc \in {"write", "exit"} /\ ~LoadFailed /\ ~Acyclic(allLinks)) =>
        /\ stderr # "TypeError"
        /\ \A i \in DOMAIN result : \A nid \in Range(result[i]) : levels[nid] # NoLevel

(***************************************************************************)
(* C3.  Every link of allLinks goes from a field of node S to a field of   *)
(* node T where (S, T) is a structural edge of the file, in that           *)
(* direction.                                                              *)
(***************************************************************************)
C3_LinksFollowEdges ==
    \A l \in Range(allLinks) :
        /\ Edge(l.source.nodeId, l.target.nodeId) \in Range(file.edges)
        /\ l.source.fieldAlias \in FieldsOf(l.source.nodeId)
        /\ l.target.fieldAlias \in FieldsOf(l.target.nodeId)

\* Links were emitted, and a formula of T names a field of S with no edge (S, T).
C3_Witness ==
    /\ ReadFlowReturned /\ allLinks # <<>>
    /\ \E S \in Range(NodeIds(nodes)), T \in Range(NodeIds(nodes)) :
           /\ S # T
           /\ Edge(S, T) \notin Range(file.edges)
           /\ \E f \in FieldsOf(S), g \in FieldsOf(T) : ReSearch(f, FormulaOf(T, g))

(***************************************************************************)
(* C4.  After readFlow, for every structural edge (S, T), field f of S     *)
(* and field g of T, the link S.f -> T.g is in allLinks if and only if g's *)
(* formula holds an occurrence of f, as a literal string, with no letter,  *)
(* digit or underscore right before or right after it; "x" is not found in *)
(* "max", "x1" or "amax" and is found in "x", "x+1" and "(x)".             *)
(***************************************************************************)
C4_Examples ==
    /\ \A F \in {<<"m", "a", "x">>, <<"x", "1">>, <<"a", "m", "a", "x">>, <<"X">>} :
           file = TextFile(<<"x">>, F) => allLinks = <<>>
    /\ \A F \in {<<"x">>, <<"x", "+", "1">>, <<"(", "x", ")">>} :
           file = TextFile(<<"x">>, F) =>
               allLinks = <<Link(NodeA, <<"x">>, NodeB, <<"t">>)>>
    /\ file = TextFile(<<"a">>, <<"a", " ", "+", " ", "1">>) =>
           allLinks = <<Link(NodeA, <<"a">>, NodeB, <<"t">>)>>
    /\ file = TextFile(<<"a">>, <<"a", "m", "a", "x">>) => allLinks = <<>>

C4_LinkIffTokenOccurs ==
    ReadFlowReturned =>
        /\ \A e \in Range(file.edges) :
               \A f \in FieldsOf(e.source), g \in FieldsOf(e.target) :
                   Link(e.source, f, e.target, g) \in Range(allLinks)
                       <=> Occurs(f, FormulaOf(e.target, g))
        /\ C4_Examples

\* "x" inside "max": scanned, and no link.
C4_Witness ==
    /\ ReadFlowReturned
    /\ file = TextFile(<<"x">>, <<"m", "a", "x">>)
    /\ allLinks = <<>>

(***************************************************************************)
(* C8.  Every node that no link targets holds level 0 from the seeding of  *)
(* the queue on, cycle or not; with no link at all compute_levels returns  *)
(* one group holding every node.                                           *)
(***************************************************************************)
C8_RootsAtLevelZero ==
    /\ LevelsStarted =>
           \A nid \in Range(NodeIds(nodes)) :
               (\A l \in Range(allLinks) : l.target.nodeId # nid) => levels[nid] = 0
    /\ (LevelsReturned /\ allLinks = <<>>) => result = <<NodeIds(nodes)>>

\* A root beside a cycle, the loop over.
C8_Witness ==
    /\ LoopEnded /\ ~Acyclic(allLinks)
    /\ \E nid \in Range(NodeIds(nodes)) :
           /\ \A l \in Range(allLinks) : l.target.nodeId # nid
           /\ \E l \in Range(allLinks) : l.source.nodeId = nid
           /\ levels[nid] = 0
    /\ \E nid \in Range(NodeIds(nodes)) : levels[nid] = NoLevel

(***************************************************************************)
(* C9.  After readFlow, allLinks holds one link per (structural edge,      *)
(* source field, target field) match, and the 'source' annotation of every *)
(* field is absent when no link targets the field and is otherwise the     *)
(* source of the last link of allLinks that targets it.                    *)
(***************************************************************************)
C9_LastMatchWins ==
    ReadFlowReturned =>
        /\ \A S \in Range(NodeIds(nodes)), T \in Range(NodeIds(nodes)) :
               \A f \in FieldsOf(S), g \in FieldsOf(T) :
                   Count(allLinks, Link(S, f, T, g)) =
                       IF ReSearch(f, FormulaOf(T, g))
                       THEN Count(file.edges, Edge(S, T)) ELSE 0
        /\ \A T \in Range(NodeIds(nodes)) : \A g \in FieldsOf(T) :
               LET hits == {i \in DOMAIN allLinks : allLinks[i].target = FieldRef(T, g)}
               IN  SourceOf(T, g) =
                       IF hits = {} THEN NoSource
                       ELSE <<allLinks[CHOOSE i \in hits : \A j \in hits : j <= i].source>>

\* A field targeted from two different fields, annotated with the later one.
C9_Witness ==
    /\ ReadFlowReturned
    /\ \E i, j \in DOMAIN allLinks :
           /\ i < j
           /\ allLinks[i].target = allLinks[j].target
           /\ allLinks[i].source # allLinks[j].source
           /\ SourceOf(allLinks[j].target.nodeId, allLinks[j].target.fieldAlias)
                  # <<allLinks[i].source>>

(***************************************************************************)
(* C10.  When a structural edge names an alias that is no alias of a       *)
(* non-exception node, the run never gets past readFlow: it ends with the  *)
(* load failure on stderr and exit status 1, and the output file is never  *)
(* written, not even in part.                                              *)
(***************************************************************************)
AbsentAlias(a) ==
    \A i \in DOMAIN file.nodes :
        file.nodes[i].alias = a => file.nodes[i].nodeType = "exception"

HasDanglingEdge ==
    \E e \in Range(file.edges) : AbsentAlias(e.source) \/ AbsentAlias(e.target)

C10_DanglingEdgeIsFatal ==
    HasDanglingEdge =>
        /\ artifact = "absent"
        /\ pc \in {"readFlow_nodes", "readFlow_edges", "exit"}
        /\ pc = "readFlow_edges" => edgeIdx <= Len(file.edges)
        /\ pc = "exit" => (exitStatus = 1 /\ stderr = "Failed to load JSON")

\* The second edge failed after the first one had emitted links.
C10_Witness ==
    /\ HasDanglingEdge /\ pc = "exit" /\ edgeIdx = 3
    /\ ~AbsentAlias(file.edges[1].source) /\ ~AbsentAlias(file.edges[1].target)
    /\ exitStatus = 1 /\ artifact = "absent"

(***************************************************************************)
(* What the claims about the document speak of.                            *)
(***************************************************************************)
\* The keys reachable from key by following map zero or more times.
RECURSIVE ReachFrom(_, _)
ReachFrom(map, S) ==
    LET more == S \cup UNION {Range(MapGet(map, k)) : k \in S}
    IN  IF more = S THEN S ELSE ReachFrom(map, more)

ReachSet(map, key) == ReachFrom(map, {key})

KeyOf(el) == Key(el.node, el.field)

WithClass(cls) == {el \in Range(Elements) : cls \in fieldClass[el]}

(***************************************************************************)
(* C5.  Every scroll/resize event leaves exactly one animation-frame       *)
(* callback requested, whether one was pending or not, and a frame that    *)
(* follows N >= 1 events runs drawLinks exactly once and leaves none       *)
(* requested; a frame that follows no event runs none.                     *)
(***************************************************************************)
C5_RedrawsCoalesce ==
    [][/\ OnScrollOrResize => (rafQueue' = 1 /\ ticking')
       /\ (AnimationFrame /\ triggers >= 1) => (frameDraws' = 1 /\ rafQueue' = 0)
       /\ (AnimationFrame /\ triggers = 0) => frameDraws' = 0]_vars

\* Two events since the last frame, one callback requested; the frame before drew once.
C5_Witness == triggers >= 2 /\ rafQueue = 1 /\ ticking /\ frameDraws = 1

(***************************************************************************)
(* C6.  After a click on a field with key K, cycle among the links or not, *)
(* the keys visited by the backward traversal are exactly the keys         *)
(* reachable from K through bwd, the keys visited by the forward traversal *)
(* exactly those reachable through fwd, K included, each visited once.     *)
(***************************************************************************)
C6_TraversalIsReachability ==
    clicked # <<>> =>
        LET K == KeyOf(clicked[1])
        IN  /\ Range(anc) = ReachSet(bwd, K)
            /\ Range(desc) = ReachSet(fwd, K)
            /\ Cardinality(Range(anc)) = Len(anc)
            /\ Cardinality(Range(desc)) = Len(desc)

\* A click on a field of a cycle of links, with a descendant outside the cycle.
C6_Witness ==
    /\ clicked # <<>>
    /\ \E n \in Range(MapGet(fwd, KeyOf(clicked[1]))) :
           n # KeyOf(clicked[1]) /\ KeyOf(clicked[1]) \in ReachSet(fwd, n)
    /\ Len(anc) >= 2
    /\ Len(desc) >= 3

(***************************************************************************)
(* C7.  Right after a click on the field with key K, whatever was marked   *)
(* before: the clicked field is the one selected field, the highlighted    *)
(* fields are those whose key is an ancestor or a descendant of K other    *)
(* than K, the highlighted connectors those whose two ends are K, an       *)
(* ancestor or a descendant; a field with no link in or out leaves no      *)
(* field and no connector highlighted.                                     *)
(***************************************************************************)
AfterClick(el) ==
    LET K == KeyOf(el)
        related == ReachSet(bwd, K) \cup ReachSet(fwd, K)
    IN  /\ WithClass("selected") = {el}
        /\ WithClass("highlighted") = {e \in Range(Elements) : KeyOf(e) \in related \ {K}}
        /\ \A i \in DOMAIN paths :
               paths[i].highlighted <=> (paths[i].src \in related /\ paths[i].tgt \in related)
        /\ (MapGet(fwd, K) = <<>> /\ MapGet(bwd, K) = <<>>) =>
               /\ WithClass("highlighted") = {}
               /\ \A i \in DOMAIN paths : ~paths[i].highlighted

C7_ClickMarksClosure ==
    [][\A el \in Range(Elements) : ClickField(el) => AfterClick(el)']_vars

(***************************************************************************)
(* C11.  In every state reached by clicks on fields, at most one field     *)
(* carries the selected mark, and a field that carries it is the field of  *)
(* the last click.                                                         *)
(***************************************************************************)
C11_OneSelectedLastClicked ==
    /\ Cardinality(WithClass("selected")) <= 1
    /\ WithClass("selected") # {} =>
           (clicked # <<>> /\ WithClass("selected") = {clicked[1]})

(***************************************************************************)
(* C12.  A field whose formula is the empty text is the target of no link  *)
(* of allLinks, whatever the source node and the source field alias (it    *)
(* may be the source of links).                                            *)
(***************************************************************************)
C12_EmptyFormulaNeverTarget ==
    \A l \in Range(allLinks) :
        FormulaOf(l.target.nodeId, l.target.fieldAlias) # <<>>

(***************************************************************************)
(* C13.  Once the catalog is built, every non-exception node of the file   *)
(* holds exactly one field per alias declared among its output fields, its *)
(* inoutput fields and its fields marked selected, and no other; the       *)
(* formula of a field is its alias when the alias is declared in the       *)
(* inoutput group or selected in the fields group, and is otherwise the    *)
(* formula of the (last) output entry of that alias, verbatim.             *)
(***************************************************************************)
AliasesOf(group) == {group[i].alias : i \in DOMAIN group}

SelectedOf(group) == {group[i].alias : i \in {j \in DOMAIN group : group[j].select}}

LastFormulaOf(group, al) ==
    group[CHOOSE i \in DOMAIN group :
              /\ group[i].alias = al
              /\ \A j \in DOMAIN group : group[j].alias = al => j <= i].formula

C13_CatalogPrecedence ==
    pc # "readFlow_nodes" =>
        \A i \in DOMAIN file.nodes :
            file.nodes[i].nodeType # "exception" =>
                LET n == file.nodes[i]
                    synthesized == AliasesOf(n.data.inoutput) \cup SelectedOf(n.data.fields)
                    declared == AliasesOf(n.data.output) \cup synthesized
                IN  /\ DictHas(nodes, n.alias)
                    /\ FieldsOf(n.alias) = declared
                    /\ Len(DictGet(nodes, n.alias).output) = Cardinality(declared)
                    /\ \A al \in declared :
                           FormulaOf(n.alias, al) =
                               IF al \in synthesized THEN al
                               ELSE LastFormulaOf(n.data.output, al)

\* Alias x declared in the three groups with an output formula that is not x,
\* alias a declared in the output group only.
C13_Witness ==
    /\ pc = "readFlow_edges"
    /\ LET d == file.nodes[1].data
       IN  /\ Len(d.output) = 2 /\ Len(d.fields) = 2
           /\ <<"x">> \in AliasesOf(d.output) \cap AliasesOf(d.inoutput) \cap SelectedOf(d.fields)
           /\ \E k \in DOMAIN d.output : d.output[k].alias = <<"x">> /\ d.output[k].formula # <<"x">>
           /\ <<"a">> \in AliasesOf(d.output) \ AliasesOf(d.inoutput)
    /\ FormulaOf(NodeA, <<"x">>) = <<"x">>
    /\ FormulaOf(NodeA, <<"a">>) = <<"1">>

(***************************************************************************)
(* C14, as stated.  Once the loop of compute_levels is over, a node whose  *)
(* in-degree did not reach 0 holds no level, and a node holds an integer   *)
(* level if and only if it was enqueued.                                   *)
(***************************************************************************)
Enqueued == Range(dequeued) \cup Range(queue)

C14_LevelIffEnqueued ==
    LoopEnded =>
        \A nid \in Range(NodeIds(nodes)) :
            /\ indegree[nid] # 0 => levels[nid] = NoLevel
            /\ levels[nid] # NoLevel <=> nid \in Enqueued

(***************************************************************************)
(* C14, amended.  Once the loop of compute_levels is over, a node was      *)
(* enqueued if and only if its in-degree reached 0, and a node holds an    *)
(* integer level if and only if it was enqueued or some link into it comes *)
(* from a node that was enqueued: a node of a cycle that an enqueued node  *)
(* links to holds a level without having been enqueued.                    *)
(***************************************************************************)
C14_LevelIffReached ==
    LoopEnded =>
        \A nid \in Range(NodeIds(nodes)) :
            /\ nid \in Enqueued <=> indegree[nid] = 0
            /\ levels[nid] # NoLevel <=>
                   \/ nid \in Enqueued
                   \/ \E l \in Range(allLinks) :
                          l.target.nodeId = nid /\ l.source.nodeId \in Enqueued

\* A cycle behind a root: one node of the cycle holds a level and was never
\* enqueued, another holds none.
C14_Witness ==
    /\ LoopEnded /\ ~Acyclic(allLinks)
    /\ \E nid \in Range(NodeIds(nodes)) : levels[nid] > 0 /\ nid \notin Enqueued
    /\ \E nid \in Range(NodeIds(nodes)) : levels[nid] = NoLevel
    /\ \E nid \in Range(NodeIds(nodes)) : nid \in Enqueued

(***************************************************************************)
(* C15.  In every state reached by clicks, scroll/resize events and        *)
(* frames, while the field K of the last click is the selected one, every  *)
(* drawn connector whose two ends are K, an ancestor of K or a descendant  *)
(* of K carries the highlighted mark.                                      *)
(***************************************************************************)
C15_RedrawKeepsHighlight ==
    (clicked # <<>> /\ WithClass("selected") = {clicked[1]}) =>
        LET K == KeyOf(clicked[1])
            related == ReachSet(bwd, K) \cup ReachSet(fwd, K)
        IN  \A i \in DOMAIN paths :
                (paths[i].src \in related /\ paths[i].tgt \in related) =>
                    paths[i].highlighted

(***************************************************************************)
(* C16.  On an acyclic projected node graph, once the loop of              *)
(* compute_levels is over, the level of every node is the number of edges  *)
(* of the longest path of the projected graph that ends at the node (such  *)
(* a path starts at a node of in-degree 0), and the levels are those       *)
(* compute_levels assigns when every projected edge A -> B is given once   *)
(* instead of once per field-level link.                                   *)
(***************************************************************************)
Parents(links, nid) == {l.source.nodeId : l \in {k \in Range(links) : k.target.nodeId = nid}}

Largest(S) == CHOOSE m \in S : \A k \in S : k <= m

RECURSIVE LongestPathTo(_, _)
LongestPathTo(links, nid) ==
    IF Parents(links, nid) = {} THEN 0
    ELSE 1 + Largest({LongestPathTo(links, p) : p \in Parents(links, nid)})

\* The first link of every projected edge.
RECURSIVE OnePerEdge(_, _, _)
OnePerEdge(links, i, acc) ==
    IF i > Len(links) THEN acc
    ELSE OnePerEdge(links, i + 1,
                    IF <<links[i].source.nodeId, links[i].target.nodeId>>
                           \in ProjectedEdges(acc)
                    THEN acc ELSE Append(acc, links[i]))

C16_LevelIsLongestPath ==
    (LoopEnded /\ Acyclic(allLinks)) =>
        /\ \A nid \in Range(NodeIds(nodes)) : levels[nid] = LongestPathTo(allLinks, nid)
        /\ levels = LevelsOf(NodeIds(nodes), OnePerEdge(allLinks, 1, <<>>))

\* A chain of two projected edges, one of them carried by two links.
C16_Witness ==
    /\ LoopEnded /\ Acyclic(allLinks)
    /\ Len(allLinks) > Cardinality(ProjectedEdges(allLinks))
    /\ \E nid \in Range(NodeIds(nodes)) : levels[nid] = 2

(***************************************************************************)
(* C17.  On an acyclic projected node graph the list compute_levels        *)
(* returns is a partition of the node set in ascending order of level:     *)
(* every node is in exactly one group, once; no group is empty; the group  *)
(* at index i (from 0) holds exactly the nodes of level i, so the levels   *)
(* in use are 0, 1, ..., with no gap.                                      *)
(***************************************************************************)
C17_GroupsPartitionByLevel ==
    (LevelsReturned /\ Acyclic(allLinks)) =>
        /\ \A nid \in Range(NodeIds(nodes)) :
               Cardinality({<<i, j>> \in (DOMAIN result) \X (1..Len(NodeIds(nodes))) :
                               j \in DOMAIN result[i] /\ result[i][j] = nid}) = 1
        /\ \A i \in DOMAIN result :
               /\ result[i] # <<>>
               /\ Range(result[i]) = {nid \in Range(NodeIds(nodes)) : levels[nid] = i - 1}

\* Three levels, and the first node of the nodes dict is not a root.
C17_Witness ==
    /\ LevelsReturned /\ Acyclic(allLinks)
    /\ Len(result) = 3
    /\ levels[NodeIds(nodes)[1]] > 0

(***************************************************************************)
(* C18.  For every node set and link list, cycle or not: the loop of       *)
(* compute_levels, once entered, reaches an empty queue; no node is        *)
(* enqueued twice (so none is dequeued twice); no in-degree counter is     *)
(* ever negative.                                                          *)
(***************************************************************************)
NoRepeat(seq) == \A i, j \in DOMAIN seq : seq[i] = seq[j] => i = j

C18_LoopTerminates ==
    /\ [](LevelsStarted =>
              /\ NoRepeat(dequeued \o queue)
              /\ \A nid \in Range(NodeIds(nodes)) : indegree[nid] >= 0)
    /\ (pc = "levels_loop") ~> (pc = "levels_loop" /\ queue = <<>>)

\* The loop ended on a link list with a cycle and two links between two nodes,
\* after three nodes were dequeued.
C18_Witness ==
    /\ pc = "levels_loop" /\ queue = <<>>
    /\ Len(dequeued) = 3
    /\ Len(allLinks) > Cardinality(ProjectedEdges(allLinks))

(***************************************************************************)
(* C19.  When every requested animation frame fires: after a scroll/resize *)
(* event a frame follows that runs drawLinks and leaves the pending flag   *)
(* false; the flag is set only while a callback is requested, and a set    *)
(* flag is eventually false again, so that the next event requests a new   *)
(* redraw.                                                                 *)
(***************************************************************************)
C19_TriggerLeadsToRedraw ==
    /\ (triggers >= 1) ~> (triggers = 0 /\ frameDraws = 1 /\ ~ticking)
    /\ ticking ~> ~ticking
    /\ [](ticking => rafQueue = 1)
    /\ [][(OnScrollOrResize /\ ~ticking) => (ticking' /\ rafQueue' = 1)]_vars

\* An event after a frame that redrew: the flag was reset and a new callback is requested.
C19_Witness == triggers = 1 /\ frameDraws = 1 /\ ticking /\ rafQueue = 1

====
